---- MODULE Spec2Model ----
(***************************************************************************)
(* State-machine model of xesmf/backend.py: the thin procedural wrapper    *)
(* around ESMPy that builds grids (esmf_grid, add_corner), builds a regrid *)
(* operator (esmf_regrid_build), applies it (esmf_regrid_apply) and frees  *)
(* it (esmf_regrid_finalize).                                              *)
(*                                                                         *)
(* Arrays are modelled by what the wrapper looks at: their shape, their    *)
(* memory layout flag and, for data arrays, one content token.  ESMPy      *)
(* objects are modelled by the attributes the wrapper reads or changes.    *)
(* Python exceptions are recorded in the variable `last`, which describes  *)
(* the most recent call: its arguments, its outcome, the warnings it       *)
(* raised and the native (ESMF) calls it made, in order.                   *)
(***************************************************************************)
EXTENDS Integers, Sequences, FiniteSets, TLC

\* ------------------------------------------------------------------ bounds

\* Largest size of one array dimension of a grid (Nx, Ny range over 1..MaxDim).
MaxDim == 2

\* Largest number of extra (non-spatial) dimensions of an operator.
MaxExtra == 1

\* The rank the wrapper requires of coordinate arrays (lon.ndim == 2).
GridNdim == 2

\* ------------------------------------------------------------------ arrays

\* All shapes of rank 0..r with every dimension in 1..d.
Shapes(d, r) == UNION {[1..n -> 1..d] : n \in 0..r}

\* A numpy array as the wrapper sees it.
Array(shape, f, val) == [shape |-> shape, f_contiguous |-> f, val |-> val]

NoArray == Array(<<>>, TRUE, "none")

\* numpy: a.ndim
ndim(a) == Len(a.shape)

\* Content tokens of caller data.
Values == {"a", "b"}

\* The values a.flags['F_CONTIGUOUS'] can take for an array of shape s: an
\* array of a single element (a scalar included) is always contiguous.
Layouts(s) == IF \E i \in 1..Len(s) : s[i] > 1 THEN BOOLEAN ELSE {TRUE}

\* Coordinate arrays (content irrelevant to the wrapper) of the given shapes.
CoordArrays(S) == UNION {{Array(s, f, "coords") : f \in Layouts(s)} : s \in S}

\* Data arrays of the given shapes.
DataArrays(S) == UNION {{Array(s, f, v) : f \in Layouts(s), v \in Values} : s \in S}

\* warn_f_contiguous: the number of warnings issued for one array (0 or 1).
\* A warning never raises.
warn_f_contiguous(a) == IF ~a.f_contiguous THEN 1 ELSE 0

\* numpy's rule for `dst[...] = src`: leading size-1 dimensions of src in
\* excess of dst's rank are dropped, then src is right-aligned with dst and
\* each of its dimensions must equal dst's or be 1.
RECURSIVE StripLeadingOnes(_, _)
StripLeadingOnes(s, n) ==
    IF Len(s) > n /\ s[1] = 1 THEN StripLeadingOnes(Tail(s), n) ELSE s

CanBroadcastTo(src, dst) ==
    LET s == StripLeadingOnes(src, Len(dst))
        off == Len(dst) - Len(s)
    IN  /\ Len(s) <= Len(dst)
        /\ \A i \in 1..Len(s) : s[i] = dst[i + off] \/ s[i] = 1

\* ------------------------------------------------------------ ESMPy objects

GridIds == {"sourcegrid", "destgrid"}

\* No grid object bound to the caller's variable yet.
NoGrid == [exists |-> FALSE, max_index |-> <<>>, center_shape |-> <<>>,
           has_corners |-> FALSE, corner_shape |-> <<>>]

\* ESMF.Grid(np.array(lon.shape), staggerloc=CENTER, coord_sys=SPH_DEG):
\* max_index is the shape given; center coordinates are allocated with that
\* shape; no corner stagger is allocated.
ESMF_Grid(shape) ==
    [exists |-> TRUE, max_index |-> shape, center_shape |-> shape,
     has_corners |-> FALSE, corner_shape |-> <<>>]

\* grid.max_index + 1 (elementwise, as numpy does).
MaxIndexPlusOne(g) == [i \in 1..Len(g.max_index) |-> g.max_index[i] + 1]

\* grid.add_coords(staggerloc=CORNER): allocates corner storage of shape
\* max_index+1 and sets has_corners.  On a grid that already has it, ESMPy
\* warns and keeps the storage.
Grid_add_coords(g) ==
    [g EXCEPT !.has_corners = TRUE, !.corner_shape = MaxIndexPlusOne(g)]

\* ------------------------------------------------------------------- state

VARIABLES
    grid,     \* the caller's two grid variables: GridIds -> grid object
    regrid,   \* the caller's operator variable (an ESMF.Regrid with its fields)
    files,    \* the file system: path -> what is stored there
    held,     \* the array returned by the first successful apply, as the caller holds it
    last      \* the most recent call: arguments, outcome, warnings, native calls

vars == <<grid, regrid, files, held, last>>

\* The record of a call, before anything is filled in.
NoCall ==
    [op |-> "none", result |-> "ok", msg |-> "", listed |-> {},
     g |-> "none", a |-> NoArray, b |-> NoArray,
     sg |-> "none", dg |-> "none", method |-> "", filename |-> "None",
     extra |-> <<>>, warnings |-> 0, calls |-> <<>>,
     pre_grid |-> NoGrid, pre_file |-> "absent", pre_src |-> "none",
     pre_finalized |-> FALSE, touched_released |-> FALSE,
     out_shape |-> <<>>, returned |-> FALSE]

\* An ESMF.Field before construction.
NoField == [shape |-> <<>>, data |-> "none", finalized |-> FALSE]

\* ESMF.Field(grid, ndbounds=extra_dims): a native buffer shaped
\* grid.max_index followed by the extra dimensions, content not yet written.
ESMF_Field(g, ndbounds) ==
    [shape |-> g.max_index \o ndbounds, data |-> "uninit", finalized |-> FALSE]

\* field.destroy(): releases the native buffer (once) and sets `finalized`.
Field_destroy(f) == [f EXCEPT !.finalized = TRUE, !.data = "released"]

\* No operator bound to the caller's variable yet.
NoRegrid == [exists |-> FALSE, srcfield |-> NoField, dstfield |-> NoField,
             method |-> "", finalized |-> FALSE]

\* ESMF.Regrid(sourcefield, destfield, ...): the mapping with its two fields.
ESMF_Regrid(sf, df, m) ==
    [exists |-> TRUE, srcfield |-> sf, dstfield |-> df,
     method |-> m, finalized |-> FALSE]

\* regrid.destroy(): releases the mapping and sets `finalized`.
Regrid_destroy(r) == [r EXCEPT !.finalized = TRUE]

\* regrid(sourcefield, destfield): what the engine leaves in the destination
\* buffer for a source buffer holding v.  The weights are the engine's; the
\* model keeps only which input the result was computed from.
EngineRegrid(v) ==
    CASE v = "a" -> "W*a"
      [] v = "b" -> "W*b"
      [] OTHER   -> "W*uninit"

\* No array held by the caller yet.
NoHeld == [exists |-> FALSE, is_view |-> FALSE, snap |-> "none", shape |-> <<>>]

Paths == {"old.nc", "new.nc"}

\* ---------------------------------------------------------------- esmf_grid

\* esmf_grid_assert without its second assertion.
esmf_grid_assert_no_same_shape(lon, lat) ==
    IF ndim(lon) # GridNdim THEN "Input grid must be 2D array" ELSE ""

\* The two assertions of esmf_grid, in order: the message of the first one
\* that fails, or "" when both pass.
esmf_grid_assert(lon, lat) ==
    IF ndim(lon) # GridNdim THEN "Input grid must be 2D array"
    ELSE IF lon.shape # lat.shape THEN "lon and lat must have same shape"
    ELSE ""

esmf_grid(g, lon, lat) ==
    LET call == [NoCall EXCEPT !.op = "esmf_grid", !.g = g, !.a = lon, !.b = lat,
                               !.pre_grid = grid[g],
                               !.warnings = warn_f_contiguous(lon) + warn_f_contiguous(lat)]
        err == esmf_grid_assert(lon, lat)
    IN  /\ IF err # ""
           THEN /\ last' = [call EXCEPT !.result = "AssertionError", !.msg = err]
                /\ UNCHANGED grid
           ELSE /\ grid' = [grid EXCEPT ![g] = ESMF_Grid(lon.shape)]
                /\ last' = [call EXCEPT !.calls = <<"ESMF.Grid">>]
        /\ UNCHANGED <<regrid, files, held>>

\* --------------------------------------------------------------- add_corner

\* add_corner_assert without its third assertion.
add_corner_assert_no_size(gr, lon_b, lat_b) ==
    IF ndim(lon_b) # GridNdim THEN "Input grid must be 2D array"
    ELSE IF lon_b.shape # lat_b.shape THEN "lon_b and lat_b must have same shape"
    ELSE ""

\* The three assertions of add_corner, in order.
add_corner_assert(gr, lon_b, lat_b) ==
    IF ndim(lon_b) # GridNdim THEN "Input grid must be 2D array"
    ELSE IF lon_b.shape # lat_b.shape THEN "lon_b and lat_b must have same shape"
    ELSE IF lon_b.shape # MaxIndexPlusOne(gr) THEN "lon_b should be size (Nx+1, Ny+1)"
    ELSE ""

add_corner(g, lon_b, lat_b) ==
    LET call == [NoCall EXCEPT !.op = "add_corner", !.g = g, !.a = lon_b, !.b = lat_b,
                               !.pre_grid = grid[g],
                               !.warnings = warn_f_contiguous(lon_b) + warn_f_contiguous(lat_b)]
        err == add_corner_assert(grid[g], lon_b, lat_b)
    IN  /\ grid[g].exists
        /\ IF err # ""
           THEN /\ last' = [call EXCEPT !.result = "AssertionError", !.msg = err]
                /\ UNCHANGED grid
           ELSE /\ grid' = [grid EXCEPT ![g] = Grid_add_coords(grid[g])]
                /\ last' = [call EXCEPT !.calls = <<"Grid.add_coords">>]
        /\ UNCHANGED <<regrid, files, held>>

\* -------------------------------------------------------- esmf_regrid_build

\* method_dict with the 'patch' entry left out.
method_dict_no_patch ==
    [m \in {"bilinear", "conservative", "nearest_s2d", "nearest_d2s"} |->
        CASE m = "bilinear"     -> "BILINEAR"
          [] m = "conservative" -> "CONSERVE"
          [] m = "nearest_s2d"  -> "NEAREST_STOD"
          [] m = "nearest_d2s"  -> "NEAREST_DTOS"]

\* method_dict: the method names and the ESMF.RegridMethod each stands for.
method_dict ==
    [m \in {"bilinear", "conservative", "patch", "nearest_s2d", "nearest_d2s"} |->
        CASE m = "bilinear"     -> "BILINEAR"
          [] m = "conservative" -> "CONSERVE"
          [] m = "patch"        -> "PATCH"
          [] m = "nearest_s2d"  -> "NEAREST_STOD"
          [] m = "nearest_d2s"  -> "NEAREST_DTOS"]

\* try: method_dict[method]  except: raise ValueError(... list(keys)).
\* TRUE when the lookup raises.
method_lookup_fails(method) == method \notin DOMAIN method_dict

\* corner_check looking at the destination grid first.
corner_check_dest_first(method, sgrid, dgrid) ==
    IF method = "conservative"
    THEN IF ~dgrid.has_corners
         THEN "destination grid has no corner information. cannot use conservative regridding."
         ELSE IF ~sgrid.has_corners
         THEN "source grid has no corner information. cannot use conservative regridding."
         ELSE ""
    ELSE ""

\* The corner check: the message of the ValueError raised, or "" when the
\* check passes.  The source grid is looked at first.
corner_check(method, sgrid, dgrid) ==
    IF method = "conservative"
    THEN IF ~sgrid.has_corners
         THEN "source grid has no corner information. cannot use conservative regridding."
         ELSE IF ~dgrid.has_corners
         THEN "destination grid has no corner information. cannot use conservative regridding."
         ELSE ""
    ELSE ""

\* The weight file check left out.
weight_file_unchecked(filename, fs) == FALSE

\* if filename is not None: assert not os.path.exists(filename).
\* TRUE when the assertion fails.
weight_file_exists(filename, fs) ==
    filename # "None" /\ fs[filename] # "absent"

\* The native calls made to allocate the two fields (lines 198-199).
field_calls == <<"ESMF.Field(sourcegrid)", "ESMF.Field(destgrid)">>

esmf_regrid_build(sg, dg, method, filename, extra_dims) ==
    LET call == [NoCall EXCEPT !.op = "esmf_regrid_build", !.sg = sg, !.dg = dg,
                               !.method = method, !.filename = filename,
                               !.extra = extra_dims,
                               !.pre_file = IF filename = "None" THEN "absent"
                                            ELSE files[filename]]
        cmsg == corner_check(method, grid[sg], grid[dg])
        sourcefield == ESMF_Field(grid[sg], extra_dims)
        destfield == ESMF_Field(grid[dg], extra_dims)
    IN  /\ grid[sg].exists /\ grid[dg].exists
        /\ IF method_lookup_fails(method)
           THEN /\ last' = [call EXCEPT !.result = "ValueError",
                                        !.msg = "method should be chosen from",
                                        !.listed = DOMAIN method_dict]
                /\ UNCHANGED <<regrid, files>>
           ELSE IF cmsg # ""
           THEN /\ last' = [call EXCEPT !.result = "ValueError", !.msg = cmsg]
                /\ UNCHANGED <<regrid, files>>
           ELSE IF weight_file_exists(filename, files)
           THEN \* the two fields are already allocated and are dropped unreleased
                /\ last' = [call EXCEPT !.result = "AssertionError",
                                        !.msg = "Weight file already exists! Please remove it or use a new name.",
                                        !.calls = field_calls]
                /\ UNCHANGED <<regrid, files>>
           ELSE /\ regrid' = ESMF_Regrid(sourcefield, destfield, method_dict[method])
                /\ files' = IF filename = "None" THEN files
                            ELSE [files EXCEPT ![filename] = "weights"]
                /\ last' = [call EXCEPT !.calls = field_calls \o <<"ESMF.Regrid">>]
        /\ UNCHANGED <<grid, held>>

\* -------------------------------------------------------- esmf_regrid_apply

\* return destfield.data: the array handed to the caller.  It is the field's
\* own buffer (a view), with the content it has at the time of the return.
returned_array(destfield) ==
    [exists |-> TRUE, is_view |-> TRUE, snap |-> destfield.data,
     shape |-> destfield.shape]

\* What the caller reads in an array it holds: a view shows the buffer as it
\* is now, a copy shows what it held when it was made.
Content(h) == IF h.is_view THEN regrid.dstfield.data ELSE h.snap

\* Reading a view of a released buffer is a use after free.
Readable(h) == ~h.is_view \/ ~regrid.dstfield.finalized

\* The outcomes of a write to, and a regrid call on, released native storage:
\* the process dies, the engine reports an error, or the call returns.
ReleasedOutcomes == {"crash", "EngineError", "ok"}

esmf_regrid_apply(indata, outcome) ==
    LET call == [NoCall EXCEPT !.op = "esmf_regrid_apply", !.a = indata,
                               !.warnings = warn_f_contiguous(indata),
                               !.pre_src = regrid.srcfield.data,
                               !.pre_finalized = regrid.finalized]
        sourcefield == regrid.srcfield
        destfield == regrid.dstfield
        applied == [regrid EXCEPT !.srcfield.data = indata.val,
                                  !.dstfield.data = EngineRegrid(indata.val)]
    IN  /\ regrid.exists
        /\ IF ~CanBroadcastTo(indata.shape, sourcefield.shape)
           THEN \* numpy raises before anything is written
                /\ outcome = "ok"
                /\ last' = [call EXCEPT !.result = "ValueError",
                                        !.msg = "could not broadcast input array"]
                /\ UNCHANGED <<regrid, held>>
           ELSE IF sourcefield.finalized
           THEN \* the write goes to a released buffer
                /\ last' = [call EXCEPT !.result = outcome,
                                        !.touched_released = TRUE,
                                        !.calls = IF outcome = "crash"
                                                  THEN <<"srcfield.data[...] = indata">>
                                                  ELSE <<"srcfield.data[...] = indata", "regrid.__call__">>,
                                        !.returned = (outcome = "ok"),
                                        !.out_shape = IF outcome = "ok" THEN destfield.shape ELSE <<>>]
                /\ held' = IF outcome = "ok" /\ ~held.exists
                           THEN returned_array(destfield) ELSE held
                /\ UNCHANGED regrid
           ELSE /\ outcome = "ok"
                /\ regrid' = applied
                /\ last' = [call EXCEPT !.calls = <<"srcfield.data[...] = indata", "regrid.__call__">>,
                                        !.returned = TRUE,
                                        !.out_shape = destfield.shape]
                /\ held' = IF ~held.exists
                           THEN returned_array(applied.dstfield) ELSE held
        /\ UNCHANGED <<grid, files>>

\* ----------------------------------------------------- esmf_regrid_finalize

\* The destroy calls with the destination field's left out.
destroy_order_no_dst == <<"srcfield", "regrid">>

\* The three destroy calls, in the order the wrapper makes them.
destroy_order == <<"srcfield", "dstfield", "regrid">>

\* One destroy call on part `what` of operator r.
destroy(r, what) ==
    CASE what = "srcfield" -> [r EXCEPT !.srcfield = Field_destroy(@)]
      [] what = "dstfield" -> [r EXCEPT !.dstfield = Field_destroy(@)]
      [] what = "regrid"   -> Regrid_destroy(r)

\* Whether part `what` of r is still live, so that destroy releases it.
is_live(r, what) ==
    CASE what = "srcfield" -> ~r.srcfield.finalized
      [] what = "dstfield" -> ~r.dstfield.finalized
      [] what = "regrid"   -> ~r.finalized

RECURSIVE destroy_all(_, _)
destroy_all(r, order) ==
    IF order = <<>> THEN r ELSE destroy_all(destroy(r, Head(order)), Tail(order))

\* The native releases a finalize makes, in order: destroy on a part already
\* finalized does nothing.
RECURSIVE release_calls(_, _)
release_calls(r, order) ==
    IF order = <<>> THEN <<>>
    ELSE (IF is_live(r, Head(order)) THEN <<Head(order)>> ELSE <<>>)
         \o release_calls(r, Tail(order))

esmf_regrid_finalize ==
    LET call == [NoCall EXCEPT !.op = "esmf_regrid_finalize",
                               !.pre_finalized = regrid.finalized,
                               !.calls = release_calls(regrid, destroy_order)]
        after == destroy_all(regrid, destroy_order)
        checked == after.srcfield.finalized /\ after.dstfield.finalized /\ after.finalized
    IN  /\ regrid.exists
        /\ regrid' = after
        /\ last' = IF checked THEN call
                   ELSE [call EXCEPT !.result = "AssertionError"]
        /\ UNCHANGED <<grid, files, held>>

\* ------------------------------------------------------------ the callers

\* The caller is between two calls: it has taken the previous call's outcome.
Idle == last.op = "none"

\* Valid center shapes (Nx, Ny) and the corner shapes that go with them.
CenterShapes == [1..GridNdim -> 1..MaxDim]
CornerShapes == [1..GridNdim -> 2..(MaxDim + 1)]

\* The destination shapes used where the source shape is the one varied.
DestShapes == {<<1, 1>>, <<MaxDim, 1>>}

\* Coordinate array shapes of any rank up to one above the required one.
CenterInputs == Shapes(MaxDim, GridNdim + 1)
CornerInputs == Shapes(MaxDim + 1, GridNdim + 1)

\* Extra dimensions an operator is built with.
ExtraDims == UNION {[1..n -> 2..MaxDim] : n \in 0..MaxExtra}

\* Data array shapes of any rank up to the largest buffer's.
DataInputs == Shapes(MaxDim, GridNdim + MaxExtra)

\* Pairs (lon, lat) of any two arrays over the shapes S.
AnyPairs(S) == CoordArrays(S) \X CoordArrays(S)

\* Pairs (lon, lat) of equally shaped column-major arrays over the shapes S.
SamePairs(S) == {<<Array(s, TRUE, "coords"), Array(s, TRUE, "coords")>> : s \in S}

Methods == DOMAIN method_dict \cup {"Bilinear", "CONSERVATIVE", "not_a_method", ""}

MakeGrid(G, P) ==
    /\ Idle
    /\ \E g \in G, p \in P : esmf_grid(g, p[1], p[2])

AddCorners(G, P) ==
    /\ Idle
    /\ \E g \in G, p \in P : add_corner(g, p[1], p[2])

\* The caller builds one operator, from a (source, destination) pair of GP.
Build(GP, M, F, E) ==
    /\ Idle
    /\ ~regrid.exists
    /\ \E gp \in GP, m \in M, f \in F, e \in E :
          esmf_regrid_build(gp[1], gp[2], m, f, e)

Apply(S) ==
    /\ Idle
    /\ \E indata \in DataArrays(S), outcome \in ReleasedOutcomes :
          esmf_regrid_apply(indata, outcome)

Finalize ==
    /\ Idle
    /\ esmf_regrid_finalize

\* The caller takes the outcome of the call (its return value or its
\* exception) and goes on.  Nothing runs after the process has died.
Return ==
    /\ ~Idle
    /\ last.result # "crash"
    /\ last' = NoCall
    /\ UNCHANGED <<grid, regrid, files, held>>

Init ==
    /\ grid = [g \in GridIds |-> NoGrid]
    /\ regrid = NoRegrid
    /\ files = [p \in Paths |-> IF p = "old.nc" THEN "preexisting" ELSE "absent"]
    /\ held = NoHeld
    /\ last = NoCall

\* Grid construction with arbitrary coordinate arrays.
NextGrid ==
    \/ MakeGrid({"sourcegrid"}, AnyPairs(CenterInputs))
    \/ AddCorners({"sourcegrid"}, AnyPairs(CornerInputs))
    \/ Return

SpecGrid == Init /\ [][NextGrid]_vars

\* Operator construction with arbitrary methods, weight files and grids.
NextBuild ==
    \/ ~regrid.exists /\ MakeGrid(GridIds, SamePairs(CenterShapes))
    \/ ~regrid.exists /\ AddCorners(GridIds, SamePairs(CornerShapes))
    \/ Build(GridIds \X GridIds, Methods, Paths \cup {"None"}, {<<>>, <<MaxDim>>})
    \/ Return

SpecBuild == Init /\ [][NextBuild]_vars

\* The whole life of an operator, with arbitrary data arrays.
Next ==
    \/ ~regrid.exists /\ MakeGrid({"sourcegrid"}, SamePairs(CenterShapes))
    \/ ~regrid.exists /\ MakeGrid({"destgrid"}, SamePairs(DestShapes))
    \/ Build({<<"sourcegrid", "destgrid">>}, {"bilinear"}, {"None"}, ExtraDims)
    \/ Apply(DataInputs)
    \/ Finalize
    \/ Return

Spec == Init /\ [][Next]_vars

\* ------------------------------------------------------- the error kinds

\* The documented error kinds, as the exceptions the wrapper raises.
ShapeMessages ==
    {"Input grid must be 2D array", "lon and lat must have same shape",
     "lon_b and lat_b must have same shape", "lon_b should be size (Nx+1, Ny+1)",
     "could not broadcast input array"}

ShapeError(l) ==
    l.result \in {"AssertionError", "ValueError"} /\ l.msg \in ShapeMessages

InvalidMethodError(l) ==
    l.result = "ValueError" /\ l.msg = "method should be chosen from"

MissingCornersError(l, which) ==
    /\ l.result = "ValueError"
    /\ l.msg = IF which = "source"
               THEN "source grid has no corner information. cannot use conservative regridding."
               ELSE "destination grid has no corner information. cannot use conservative regridding."

WeightFileExistsError(l) ==
    /\ l.result = "AssertionError"
    /\ l.msg = "Weight file already exists! Please remove it or use a new name."

UseAfterFinalizeError(l) == l.result = "UseAfterFinalizeError"

\* The five documented method names.
FiveMethods == {"bilinear", "conservative", "patch", "nearest_s2d", "nearest_d2s"}

\* Whether x occurs in the sequence q.
Occurs(x, q) == \E i \in 1..Len(q) : q[i] = x

\* ------------------------------------------------------------------ claims

\* C1: once finalize has completed, every later apply fails with
\* UseAfterFinalizeError, and it fails before the released source buffer is
\* written or the mapping is invoked.
C1_ApplyAfterFinalizeFailsFast ==
    (last.op = "esmf_regrid_apply" /\ last.pre_finalized)
        => /\ UseAfterFinalizeError(last)
           /\ ~last.touched_released
           /\ last.calls = <<>>

\* C2: the array returned by apply is an independent copy: whatever apply
\* and finalize calls follow, the caller can still read it and reads what it
\* held when it was returned.
C2_ReturnedArrayIsStableCopy ==
    held.exists => Readable(held) /\ Content(held) = held.snap

\* C3: on a live operator, apply succeeds exactly for input shaped like the
\* source buffer, (Nx_src, Ny_src) + E; every other shape fails with
\* ShapeError and leaves the source buffer as it was; accepted input yields
\* output shaped like the destination buffer, (Nx_dst, Ny_dst) + E.
C3_ApplyAcceptsExactShapeOnly ==
    (last.op = "esmf_regrid_apply" /\ ~last.pre_finalized)
        => IF last.a.shape = regrid.srcfield.shape
           THEN last.result = "ok" /\ last.out_shape = regrid.dstfield.shape
           ELSE ShapeError(last) /\ regrid.srcfield.data = last.pre_src

\* C4 as stated: a build with a valid method and a weight file path at which
\* a file exists fails with WeightFileExistsError, without the weight
\* computation being invoked and without the file being changed, for every
\* valid method and every grid pair.
C4_Original ==
    (/\ last.op = "esmf_regrid_build"
     /\ last.method \in FiveMethods
     /\ last.filename # "None"
     /\ last.pre_file # "absent")
        => /\ WeightFileExistsError(last)
           /\ ~Occurs("ESMF.Regrid", last.calls)
           /\ files[last.filename] = last.pre_file

\* The corner prerequisite of a build call holds: the method is not
\* conservative, or both grids have corners.
CornersSatisfied(l) ==
    l.method = "conservative" => grid[l.sg].has_corners /\ grid[l.dg].has_corners

\* C4 amended: the same, for every valid method and grid pair that passes
\* the corner check (a conservative build on a grid without corners fails
\* with MissingCornersError first).  In no case is the weight computation
\* invoked or the file changed.
C4_WeightFileExistsFailsBeforeRegrid ==
    (/\ last.op = "esmf_regrid_build"
     /\ last.method \in FiveMethods
     /\ last.filename # "None"
     /\ last.pre_file # "absent")
        => /\ CornersSatisfied(last) => WeightFileExistsError(last)
           /\ last.result # "ok"
           /\ ~regrid.exists
           /\ ~Occurs("ESMF.Regrid", last.calls)
           /\ files[last.filename] = last.pre_file

C4_Witness ==
    /\ last.op = "esmf_regrid_build"
    /\ last.method = "conservative"
    /\ grid[last.sg].has_corners /\ grid[last.dg].has_corners
    /\ last.filename = "old.nc"
    /\ WeightFileExistsError(last)
    /\ files["old.nc"] = "preexisting"

\* C5: a conservative build fails with MissingCornersError naming the source
\* grid when the source grid has no corners, naming the destination grid when
\* only the destination grid has none, and passes the check when both have
\* corners; for every other method the check never fires.
C5_ConservativeNeedsCorners ==
    last.op = "esmf_regrid_build"
        => IF last.method = "conservative"
           THEN /\ ~grid[last.sg].has_corners => MissingCornersError(last, "source")
                /\ (grid[last.sg].has_corners /\ ~grid[last.dg].has_corners)
                      => MissingCornersError(last, "destination")
                /\ (grid[last.sg].has_corners /\ grid[last.dg].has_corners)
                      => /\ ~MissingCornersError(last, "source")
                         /\ ~MissingCornersError(last, "destination")
           ELSE /\ ~MissingCornersError(last, "source")
                /\ ~MissingCornersError(last, "destination")

C5_Witness ==
    /\ last.op = "esmf_regrid_build"
    /\ last.method = "conservative"
    /\ last.sg # last.dg
    /\ grid[last.sg].has_corners /\ grid[last.dg].has_corners
    /\ last.result = "ok"
    /\ regrid.exists /\ regrid.method = "CONSERVE"

\* C6: a build passes the method check exactly for the five method names,
\* compared case-sensitively; any other value fails with InvalidMethodError
\* listing the five, before any corner check, weight file check or buffer
\* allocation.
C6_MethodValidatedFirst ==
    last.op = "esmf_regrid_build"
        => IF last.method \in FiveMethods
           THEN ~InvalidMethodError(last)
           ELSE /\ InvalidMethodError(last)
                /\ last.listed = FiveMethods
                /\ last.calls = <<>>
                /\ ~regrid.exists

C6_Witness ==
    /\ last.op = "esmf_regrid_build"
    /\ last.method = "Bilinear"
    /\ last.filename = "old.nc" /\ last.pre_file = "preexisting"
    /\ InvalidMethodError(last)
    /\ last.calls = <<>>

\* The corner arrays of an add_corner call are what the grid requires: both
\* 2-dimensional, identically shaped, and shaped (Nx+1, Ny+1).
CornersFit(l) ==
    /\ ndim(l.a) = 2 /\ ndim(l.b) = 2
    /\ l.a.shape = l.b.shape
    /\ l.a.shape = <<l.pre_grid.center_shape[1] + 1, l.pre_grid.center_shape[2] + 1>>

\* C7: add_corner on a grid of center shape (Nx, Ny) succeeds if and only if
\* both corner arrays are 2-dimensional, identically shaped and shaped
\* (Nx+1, Ny+1); otherwise it fails with ShapeError and leaves the grid as
\* it was.
C7_AddCornersIffShapeFits ==
    last.op = "add_corner"
        => IF CornersFit(last)
           THEN /\ last.result = "ok"
                /\ grid[last.g].has_corners
                /\ grid[last.g].corner_shape = last.a.shape
           ELSE /\ ShapeError(last)
                /\ grid[last.g] = last.pre_grid

C7_Witness ==
    /\ last.op = "add_corner"
    /\ last.pre_grid.center_shape = <<1, 2>>
    /\ last.a.shape = <<2, 2>> /\ last.b.shape = <<2, 2>>
    /\ ShapeError(last)
    /\ ~grid[last.g].has_corners

\* The coordinate arrays of an esmf_grid call are valid: both 2-dimensional
\* and identically shaped.
CentersFit(l) ==
    ndim(l.a) = 2 /\ ndim(l.b) = 2 /\ l.a.shape = l.b.shape

\* The number of arrays of a call that are not column-major.
NotColumnMajor(l) ==
    (IF l.a.f_contiguous THEN 0 ELSE 1) + (IF l.b.f_contiguous THEN 0 ELSE 1)

\* C8: esmf_grid succeeds exactly when lon and lat are both 2-dimensional
\* and identically shaped, and the grid then stores the input shape as its
\* center shape; otherwise it fails with ShapeError and yields no grid.  An
\* array that is not column-major costs one warning and changes nothing else.
C8_MakeGridIffShapesAgree ==
    last.op = "esmf_grid"
        => /\ last.warnings = NotColumnMajor(last)
           /\ IF CentersFit(last)
              THEN /\ last.result = "ok"
                   /\ grid[last.g].exists
                   /\ grid[last.g].max_index = last.a.shape
                   /\ grid[last.g].center_shape = last.a.shape
              ELSE /\ ShapeError(last)
                   /\ grid[last.g] = last.pre_grid

C8_Witness ==
    /\ last.op = "esmf_grid"
    /\ ~last.a.f_contiguous /\ ~last.b.f_contiguous
    /\ last.warnings = 2
    /\ last.result = "ok"
    /\ grid[last.g].center_shape = <<1, 2>>

\* A build failed with one of its three validation errors.
ValidationError(l) ==
    \/ InvalidMethodError(l)
    \/ MissingCornersError(l, "source")
    \/ MissingCornersError(l, "destination")
    \/ WeightFileExistsError(l)

\* C9: when a build fails with one of its validation errors, no native call
\* has been made before the failure: no field buffer has been allocated.
C9_ValidationBeforeNativeCalls ==
    (last.op = "esmf_regrid_build" /\ ValidationError(last))
        => last.calls = <<>>

\* The operator's three resources are released.
AllReleased(r) == r.srcfield.finalized /\ r.dstfield.finalized /\ r.finalized

\* C10, the postcondition: a finalize of a live operator releases the source
\* buffer, the destination buffer and the mapping, in that order, and all
\* three are released when it completes.
C10_FinalizeReleasesAll ==
    (last.op = "esmf_regrid_finalize" /\ ~last.pre_finalized)
        => /\ last.calls = <<"srcfield", "dstfield", "regrid">>
           /\ last.result = "ok"
           /\ AllReleased(regrid)
           /\ regrid.srcfield.data = "released"
           /\ regrid.dstfield.data = "released"

\* C10, terminality: no step returns a released resource to the live state.
C10_ReleasedStaysReleased ==
    /\ regrid.srcfield.finalized => regrid'.srcfield.finalized
    /\ regrid.dstfield.finalized => regrid'.dstfield.finalized
    /\ regrid.finalized => regrid'.finalized

\* C10: from any live operator state, finalize releases the source buffer,
\* the destination buffer and the mapping, in that order, all three are
\* released on completion, and no later operation makes any of them live.
C10_FinalizeIsTerminal ==
    [](C10_FinalizeReleasesAll) /\ [][C10_ReleasedStaysReleased]_vars

C10_Witness ==
    /\ last.op = "esmf_regrid_apply"
    /\ last.pre_finalized
    /\ last.touched_released
    /\ last.result = "ok"
    /\ held.exists /\ held.snap \in {"W*a", "W*b"}
    /\ AllReleased(regrid)

====
